---- MODULE Spec2Model ----
(***************************************************************************)
(* A model of the AI Content Creator Studio: the script parser of App.tsx, *)
(* the script requester and the ElevenLabs audio synthesizer of aiService, *)
(* and the flag-driven UI state of the App component.                      *)
(*                                                                         *)
(* A JavaScript string is a sequence of one-character strings, so that     *)
(* split, trim, toLowerCase, includes and the speaker regular expression   *)
(* are computed character by character, as the engine computes them.       *)
(***************************************************************************)
EXTENDS Integers, Sequences, FiniteSets, TLC

(***************************************************************************)
(* Bounds of the model.                                                    *)
(***************************************************************************)
\* the most lines ('\n'-separated) of a raw text given to the parser
MaxRawLines ==
    3
\* the most ScriptLines of a script given to the synthesizer
MaxScriptLen ==
    3

(***************************************************************************)
(* Characters and strings.                                                 *)
(***************************************************************************)
LF ==
    "\n"
CR ==
    "\r"
TAB ==
    "\t"

UpperLetters ==
    <<"A","B","C","D","E","F","G","H","I","J","K","L","M",
      "N","O","P","Q","R","S","T","U","V","W","X","Y","Z">>
LowerLetters ==
    <<"a","b","c","d","e","f","g","h","i","j","k","l","m",
      "n","o","p","q","r","s","t","u","v","w","x","y","z">>
Digits ==
    {"0","1","2","3","4","5","6","7","8","9"}

Range(s) ==
    {s[i] : i \in 1..Len(s)}

\* White space as String.prototype.trim and the regular expression's \s see
\* it (restricted to the characters of the model's alphabet).
WhiteSpace ==
    {" ", TAB, LF, CR}

IsWhiteSpace(c) ==
    c \in WhiteSpace

\* The line terminators, which the regular expression's '.' does not match.
IsLineTerminator(c) ==
    c \in {LF, CR}

\* The class [A-Za-z0-9] (under the i flag, which adds nothing to it).
Alnum ==
    Range(UpperLetters) \cup Range(LowerLetters) \cup Digits

\* String.prototype.toLowerCase, one character
LowerChar(c) ==
    IF \E i \in 1..Len(UpperLetters) : UpperLetters[i] = c
    THEN LowerLetters[CHOOSE i \in 1..Len(UpperLetters) : UpperLetters[i] = c]
    ELSE c

\* String.prototype.toLowerCase
toLowerCase(s) ==
    [i \in 1..Len(s) |-> LowerChar(s[i])]

\* String.prototype.trim: drops the leading and the trailing white space
trim(s) ==
    LET nonWs == {i \in 1..Len(s) : ~IsWhiteSpace(s[i])}
    IN  IF nonWs = {} THEN <<>>
        ELSE LET first == CHOOSE i \in nonWs : \A j \in nonWs : i <= j
                 last  == CHOOSE i \in nonWs : \A j \in nonWs : j <= i
             IN  SubSeq(s, first, last)

\* String.prototype.includes: sub occurs in s as a contiguous substring
includes(s, sub) ==
    \E k \in 0..(Len(s) - Len(sub)) :
        \A j \in 1..Len(sub) : s[k + j] = sub[j]

\* String.prototype.split('\n'): the pieces between the line feeds, the empty
\* pieces included; one piece more than there are line feeds.
RECURSIVE split(_)
split(text) ==
    IF \A i \in 1..Len(text) : text[i] # LF
    THEN <<text>>
    ELSE LET k == CHOOSE i \in 1..Len(text) :
                      text[i] = LF /\ \A j \in 1..(i - 1) : text[j] # LF
         IN  <<SubSeq(text, 1, k - 1)>> \o split(SubSeq(text, k + 1, Len(text)))

\* the filter of parseScriptText: line => line.trim() !== ''
NonBlankLine(line) ==
    trim(line) # <<>>

\* Array.prototype.filter, with the predicate of parseScriptText
RECURSIVE filterNonBlank(_)
filterNonBlank(lines) ==
    IF lines = <<>> THEN <<>>
    ELSE (IF NonBlankLine(Head(lines)) THEN <<Head(lines)>> ELSE <<>>)
             \o filterNonBlank(Tail(lines))

(***************************************************************************)
(* The script parser (App.tsx, parseScriptText).                           *)
(***************************************************************************)
\* The literal the speaker pattern starts with, compared case-insensitively.
PersonPrefix ==
    <<"p","e","r","s","o","n"," ">>

\* The length of the longest run of characters of a class at the start of s
RunLength(s, class) ==
    IF \A i \in 1..Len(s) : s[i] \in class THEN Len(s)
    ELSE (CHOOSE i \in 1..Len(s) :
              s[i] \notin class /\ \A j \in 1..(i - 1) : s[j] \in class) - 1

\* The match of /^(Person [A-Za-z0-9]+):\s*(.*)$/i against one line:
\*   matched  whether the pattern matches;
\*   speaker  capture 1, "Person " and the label, as written in the line;
\*   rest     capture 2, what '.*' takes.
\* There is no m flag: ^ and $ are the two ends of the line. The label is the
\* longest run of alphanumerics after the prefix and must be followed by ':'
\* (a shorter label would be followed by an alphanumeric). \s* is greedy and
\* gives characters back to '.*' while the rest of the line fails to match;
\* '.*$' needs the rest of the line to hold no line terminator.
SpeakerRegexMatch(line) ==
    LET n        == Len(PersonPrefix)
        prefixOk == /\ Len(line) >= n
                    /\ toLowerCase(SubSeq(line, 1, n)) = PersonPrefix
        afterP   == SubSeq(line, n + 1, Len(line))
        labelLen == RunLength(afterP, Alnum)
        colonOk  == /\ labelLen >= 1
                    /\ Len(afterP) > labelLen
                    /\ afterP[labelLen + 1] = ":"
        afterC   == SubSeq(afterP, labelLen + 2, Len(afterP))
        \* the numbers of characters \s* may take for the rest to match
        wsTakes  == {k \in 0..RunLength(afterC, WhiteSpace) :
                        \A j \in (k + 1)..Len(afterC) : ~IsLineTerminator(afterC[j])}
        take     == CHOOSE k \in wsTakes : \A m \in wsTakes : m <= k
    IN  IF prefixOk /\ colonOk /\ wsTakes # {}
        THEN [matched |-> TRUE,
              speaker |-> SubSeq(line, 1, n + labelLen),
              rest    |-> SubSeq(afterC, take + 1, Len(afterC))]
        ELSE [matched |-> FALSE, speaker |-> <<>>, rest |-> <<>>]

\* ParseLines, were a line that does not match kept as a line of its own
\* speaker instead of dropped
RECURSIVE ParseLines_KeepUnmatched(_)
ParseLines_KeepUnmatched(lines) ==
    IF lines = <<>> THEN <<>>
    ELSE LET m == SpeakerRegexMatch(Head(lines))
         IN  (IF m.matched
              THEN <<[speaker |-> m.speaker, text |-> trim(m.rest)]>>
              ELSE <<[speaker |-> <<"N","a","r","r","a","t","o","r">>,
                      text |-> trim(Head(lines))]>>)
                 \o ParseLines_KeepUnmatched(Tail(lines))

\* the loop of parseScriptText over the kept lines
RECURSIVE ParseLines(_)
ParseLines(lines) ==
    IF lines = <<>> THEN <<>>
    ELSE LET m == SpeakerRegexMatch(Head(lines))
         IN  (IF m.matched
              THEN <<[speaker |-> m.speaker, text |-> trim(m.rest)]>>
              ELSE <<>>) \o ParseLines(Tail(lines))

parseScriptText(text) ==
    ParseLines(filterNonBlank(split(text)))

(***************************************************************************)
(* State.                                                                  *)
(***************************************************************************)
VARIABLES
    \* parseScriptText applied on its own: its argument, its result, and
    \* whether it has been applied
    rawInput, parseOut, parsePc,
    \* ELEVENLABS_API_KEY is set
    elevenKey,
    \* one call of generateAudioWithElevenLabs: where it is, its argument, the
    \* line it is at, the buffers fetched, its result and the final buffer
    synPc, synLines, synI, audioSegments, synResult, finalAudioBuffer,
    \* the synthesis requests posted by the call, and their answers, in order
    requests, responses,
    \* API_KEY (Gemini) is set
    geminiKey,
    \* the state of the App component (useState, App.tsx 13-24)
    scriptLines, audioUrl, audioStatusMessage, videoUrl,
    isLoadingScript, isGeneratingAudio, isScriptDirty,
    currentStatusMessage, error,
    \* handleTopicSubmit: whether a call awaits generateScript, whether that
    \* call of generateScript posted a request, what the request came to, and
    \* how generateScript ended
    scriptPc, scriptRequested, scriptReply, scriptResult,
    \* the state of the ScriptOutput component (part_001 21-22)
    editingIndex, editText,
    \* the handler the last step invoked, with its arguments; NoCall when the
    \* last step was the continuation of an await
    called

parseVars ==
    <<rawInput, parseOut, parsePc>>

synVars ==
    <<elevenKey, synPc, synLines, synI, audioSegments, synResult,
      finalAudioBuffer, requests, responses>>

appVars ==
    <<geminiKey, scriptLines, audioUrl, audioStatusMessage, videoUrl,
      isLoadingScript, isGeneratingAudio, isScriptDirty, currentStatusMessage,
      error, scriptPc, scriptRequested, scriptReply, scriptResult, editingIndex,
      editText>>

vars ==
    <<parseVars, synVars, appVars, called>>

(***************************************************************************)
(* The audio synthesizer (aiService: generateAudioSegment,                 *)
(* concatenateAudioBuffers, generateAudioWithElevenLabs).                  *)
(*                                                                         *)
(* A message built by a template literal is the sequence of its pieces, so *)
(* that one message containing another is the containment of sequences.    *)
(* An ArrayBuffer is the sequence of its bytes.                            *)
(***************************************************************************)
VOICE_ID_PERSON_A ==
    "WAhoMTNdLdMoq1j3wf3I"
VOICE_ID_PERSON_B ==
    "KH1SQLVulwP6uG4O3nmT"
ELEVENLABS_MODEL_ID ==
    "eleven_turbo_v2"

PlaceholderAudioUrl ==
    "https://interactive-examples.mdn.mozilla.net/media/cc0-audio/t-rex-roar.mp3"
\* what URL.createObjectURL returns for the blob of the final buffer
BlobAudioUrl ==
    "blob:audio/mpeg"

KeyMissingStatus ==
    <<"Audio generation simulated (API key missing). Placeholder audio provided.">>
NoScriptLinesStatus ==
    <<"No script lines to generate audio from.">>
NoAudioStatus ==
    <<"No audio generated as all script lines were empty or resulted in no audio.">>

SuccessStatus(segments) ==
    <<"Audio successfully generated with ", ToString(Len(segments)),
      " segments using multiple voices.">>

FailedStatus(errorMessage) ==
    <<"Multi-voice audio generation failed: ">> \o errorMessage
        \o <<". Placeholder audio provided.">>

\* VoiceFor, were the label not put in lower case
VoiceFor_CaseSensitive(line) ==
    IF \/ includes(line.speaker, <<"p","e","r","s","o","n"," ","a">>)
       \/ includes(line.speaker, <<" ","a",":">>)
    THEN VOICE_ID_PERSON_A
    ELSE VOICE_ID_PERSON_B

\* the voice of a line: line.speaker.toLowerCase() includes 'person a' or ' a:'
VoiceFor(line) ==
    IF \/ includes(toLowerCase(line.speaker), <<"p","e","r","s","o","n"," ","a">>)
       \/ includes(toLowerCase(line.speaker), <<" ","a",":">>)
    THEN VOICE_ID_PERSON_A
    ELSE VOICE_ID_PERSON_B

\* SkipsLine, were the text not trimmed
SkipsLine_EmptyOnly(line) ==
    line.text = <<>>

\* the lines the loop skips: !line.text || line.text.trim() === ""
SkipsLine(line) ==
    line.text = <<>> \/ trim(line.text) = <<>>

\* SegmentRequest, with the text of the line before
SegmentRequest_PreviousText(lines, i) ==
    [line    |-> i,
     text    |-> lines[IF i > 1 THEN i - 1 ELSE i].text,
     voiceId |-> VoiceFor(lines[i]),
     modelId |-> ELEVENLABS_MODEL_ID]

\* the body of the request generateAudioSegment posts for a line
SegmentRequest(lines, i) ==
    [line    |-> i,
     text    |-> lines[i].text,
     voiceId |-> VoiceFor(lines[i]),
     modelId |-> ELEVENLABS_MODEL_ID]

\* What a request may come to: the bytes of the audio (response.ok), an HTTP
\* error with its status and body, or fetch itself failing. The body of an
\* error is given with what JSON.parse makes of it: whether it parses, and
\* the detail.message and the detail string of the parsed value ("" if none).
SegmentBuffers ==
    { <<>>, <<1>>, <<2, 3>> }

SegmentOutcomes ==
    {[kind |-> "ok", buffer |-> b, status |-> "200", errorBody |-> "",
      isJson |-> FALSE, detailMessage |-> "", detail |-> "", thrown |-> ""] :
        b \in SegmentBuffers}
    \cup
    {[kind |-> "http", buffer |-> <<>>, status |-> "401",
      errorBody |-> "{\"detail\":{\"message\":\"Invalid API key\"}}",
      isJson |-> TRUE, detailMessage |-> "Invalid API key", detail |-> "",
      thrown |-> ""],
     [kind |-> "http", buffer |-> <<>>, status |-> "429",
      errorBody |-> "Too Many Requests",
      isJson |-> FALSE, detailMessage |-> "", detail |-> "", thrown |-> ""],
     [kind |-> "network", buffer |-> <<>>, status |-> "", errorBody |-> "",
      isJson |-> FALSE, detailMessage |-> "", detail |-> "",
      thrown |-> "Failed to fetch"]}

\* The message of the error generateAudioSegment ends with, for an outcome
\* that is not ok. For an HTTP error:
\*   `ElevenLabs API error: ${status} - ${detail?.message || detail || body}`
\* with the body itself when it is no JSON; for a failure of fetch, the
\* message of the error fetch rejected with.
SegmentErrorMessage(outcome) ==
    IF outcome.kind = "http"
    THEN <<"ElevenLabs API error: ", outcome.status, " - ",
           IF ~outcome.isJson THEN outcome.errorBody
           ELSE IF outcome.detailMessage # "" THEN outcome.detailMessage
           ELSE IF outcome.detail # "" THEN outcome.detail
           ELSE outcome.errorBody>>
    ELSE <<outcome.thrown>>

\* concatenateAudioBuffers: a zeroed Uint8Array of the total length, each
\* buffer set at the offset the buffers before it have reached
RECURSIVE TotalLength(_)
TotalLength(buffers) ==
    IF buffers = <<>> THEN 0
    ELSE Len(Head(buffers)) + TotalLength(Tail(buffers))

SetAt(result, buffer, offset) ==
    [k \in 1..Len(result) |->
        IF k > offset /\ k <= offset + Len(buffer)
        THEN buffer[k - offset] ELSE result[k]]

RECURSIVE SetAll(_, _, _)
SetAll(result, buffers, offset) ==
    IF buffers = <<>> THEN result
    ELSE SetAll(SetAt(result, Head(buffers), offset), Tail(buffers),
                offset + Len(Head(buffers)))

\* concatenateAudioBuffers, were the offset never advanced
RECURSIVE SetAllAtZero(_, _)
SetAllAtZero(result, buffers) ==
    IF buffers = <<>> THEN result
    ELSE SetAllAtZero(SetAt(result, Head(buffers), 0), Tail(buffers))

concatenateAudioBuffers_NoOffset(buffers) ==
    SetAllAtZero([k \in 1..TotalLength(buffers) |-> 0], buffers)

concatenateAudioBuffers(buffers) ==
    SetAll([k \in 1..TotalLength(buffers) |-> 0], buffers, 0)

\* the result of generateAudioWithElevenLabs (AudioGenerationDetails)
AudioDetails(url, statusMessage) ==
    [url |-> url, statusMessage |-> statusMessage]

NoDetails ==
    AudioDetails("", <<>>)

\* FinishedResult, without the check for no segment: the blob of whatever
\* was concatenated
FinishedResult_NoEmptyCheck(segments) ==
    AudioDetails(BlobAudioUrl, SuccessStatus(segments))

\* what the call returns once the loop is over
FinishedResult(segments) ==
    IF Len(segments) = 0
    THEN AudioDetails("", NoAudioStatus)
    ELSE AudioDetails(BlobAudioUrl, SuccessStatus(segments))

\* LoopFrom, were the request of the line with text after the next posted
\* along with it
LoopFrom_TwoAtOnce(lines, from, segments, posted) ==
    IF \E j \in from..Len(lines) : ~SkipsLine(lines[j])
    THEN LET j == CHOOSE k \in from..Len(lines) :
                      /\ ~SkipsLine(lines[k])
                      /\ \A l \in from..(k - 1) : SkipsLine(lines[l])
             later == {k \in (j + 1)..Len(lines) : ~SkipsLine(lines[k])}
         IN  /\ synI' = j
             /\ requests' =
                    IF later = {}
                    THEN Append(posted, SegmentRequest(lines, j))
                    ELSE Append(Append(posted, SegmentRequest(lines, j)),
                                SegmentRequest(lines,
                                    CHOOSE k \in later : \A l \in later : k <= l))
             /\ synPc' = "fetching"
             /\ synResult' = NoDetails
             /\ finalAudioBuffer' = <<>>
    ELSE /\ synI' = Len(lines) + 1
         /\ synPc' = "returned"
         /\ requests' = posted
         /\ synResult' = FinishedResult(segments)
         /\ finalAudioBuffer' =
                IF FinishedResult(segments).url = BlobAudioUrl
                THEN concatenateAudioBuffers(segments)
                ELSE <<>>

\* The loop from line `from` on (lines are numbered from 1): the lines with
\* no text are skipped; at the first line with text the request is posted and
\* the call waits for it; past the last line the call returns.
LoopFrom(lines, from, segments, posted) ==
    IF \E j \in from..Len(lines) : ~SkipsLine(lines[j])
    THEN LET j == CHOOSE k \in from..Len(lines) :
                      /\ ~SkipsLine(lines[k])
                      /\ \A l \in from..(k - 1) : SkipsLine(lines[l])
         IN  /\ synI' = j
             /\ requests' = Append(posted, SegmentRequest(lines, j))
             /\ synPc' = "fetching"
             /\ synResult' = NoDetails
             /\ finalAudioBuffer' = <<>>
    ELSE /\ synI' = Len(lines) + 1
         /\ synPc' = "returned"
         /\ requests' = posted
         /\ synResult' = FinishedResult(segments)
         /\ finalAudioBuffer' =
                IF FinishedResult(segments).url = BlobAudioUrl
                THEN concatenateAudioBuffers(segments)
                ELSE <<>>

\* CallSynth, without the check of the key
CallSynth_NoKeyCheck(lines) ==
    /\ synPc = "idle"
    /\ synLines' = lines
    /\ audioSegments' = <<>>
    /\ responses' = <<>>
    /\ IF Len(lines) = 0
       THEN /\ synResult' = AudioDetails("", NoScriptLinesStatus)
            /\ synPc' = "returned"
            /\ requests' = <<>>
            /\ synI' = 0
            /\ finalAudioBuffer' = <<>>
       ELSE LoopFrom(lines, 1, <<>>, <<>>)
    /\ UNCHANGED elevenKey

\* generateAudioWithElevenLabs(lines), up to its first await or its return
CallSynth(lines) ==
    /\ synPc = "idle"
    /\ synLines' = lines
    /\ audioSegments' = <<>>
    /\ responses' = <<>>
    /\ IF ~elevenKey
       THEN /\ synResult' = AudioDetails(PlaceholderAudioUrl, KeyMissingStatus)
            /\ synPc' = "returned"
            /\ requests' = <<>>
            /\ synI' = 0
            /\ finalAudioBuffer' = <<>>
       ELSE IF Len(lines) = 0
       THEN /\ synResult' = AudioDetails("", NoScriptLinesStatus)
            /\ synPc' = "returned"
            /\ requests' = <<>>
            /\ synI' = 0
            /\ finalAudioBuffer' = <<>>
       ELSE LoopFrom(lines, 1, <<>>, <<>>)
    /\ UNCHANGED elevenKey

\* SegmentResponds, were the segments fetched before a failure returned
SegmentResponds_PartialAudio(outcome) ==
    /\ synPc = "fetching"
    /\ responses' = Append(responses, outcome)
    /\ audioSegments' =
           IF outcome.kind = "ok" THEN Append(audioSegments, outcome.buffer)
           ELSE audioSegments
    /\ IF outcome.kind = "ok" /\ synI < Len(synLines)
       THEN /\ synPc' = "delay"
            /\ UNCHANGED <<synI, requests, synResult, finalAudioBuffer>>
       ELSE LoopFrom(synLines, Len(synLines) + 1, audioSegments', requests)
    /\ UNCHANGED <<elevenKey, synLines>>

\* an Error thrown by the call, where its AudioGenerationDetails would be
ThrownError(message) ==
    [url |-> "", statusMessage |-> message]

\* SegmentResponds, were the Error of a failed request not caught
SegmentResponds_Rethrows(outcome) ==
    /\ synPc = "fetching"
    /\ responses' = Append(responses, outcome)
    /\ IF outcome.kind = "ok"
       THEN /\ audioSegments' = Append(audioSegments, outcome.buffer)
            /\ IF synI < Len(synLines)
               THEN /\ synPc' = "delay"
                    /\ UNCHANGED <<synI, requests, synResult, finalAudioBuffer>>
               ELSE LoopFrom(synLines, synI + 1,
                             Append(audioSegments, outcome.buffer), requests)
       ELSE /\ synResult' = ThrownError(SegmentErrorMessage(outcome))
            /\ synPc' = "thrown"
            /\ UNCHANGED <<audioSegments, synI, requests, finalAudioBuffer>>
    /\ UNCHANGED <<elevenKey, synLines>>

\* the request for line synI is answered
SegmentResponds(outcome) ==
    /\ synPc = "fetching"
    /\ responses' = Append(responses, outcome)
    /\ IF outcome.kind = "ok"
       THEN /\ audioSegments' = Append(audioSegments, outcome.buffer)
            /\ IF synI < Len(synLines)
               THEN /\ synPc' = "delay"
                    /\ UNCHANGED <<synI, requests, synResult, finalAudioBuffer>>
               ELSE LoopFrom(synLines, synI + 1,
                             Append(audioSegments, outcome.buffer), requests)
       ELSE /\ synResult' = AudioDetails(PlaceholderAudioUrl,
                                         FailedStatus(SegmentErrorMessage(outcome)))
            /\ synPc' = "returned"
            /\ UNCHANGED <<audioSegments, synI, requests, finalAudioBuffer>>
    /\ UNCHANGED <<elevenKey, synLines>>

\* the 250 ms between two lines have passed
DelayElapsed ==
    /\ synPc = "delay"
    /\ LoopFrom(synLines, synI + 1, audioSegments, requests)
    /\ UNCHANGED <<elevenKey, synLines, audioSegments, responses>>

(***************************************************************************)
(* The script requester (aiService: generateScript).                       *)
(***************************************************************************)
GeminiKeyMissingMessage ==
    <<"Gemini API Key is not configured. Cannot connect to AI services.">>
EmptyResponseMessage ==
    <<"AI failed to generate a script. The response was empty.">>
InvalidKeyMessage ==
    <<"The provided Gemini API Key is not valid. Please check your configuration.">>
UnknownGenerationMessage ==
    <<"An unknown error occurred during script generation.">>

\* the texts a response of the model may carry
ReplyTexts ==
    { <<"P","e","r","s","o","n"," ","A",":"," ","h","i",LF,
        "P","e","r","s","o","n"," ","B",":"," ","y","o">>,
      <<"P","e","r","s","o","n"," ","A",":",LF,
        "P","e","r","s","o","n"," ","B",":"," ","y","o">>,
      <<"h","e","l","l","o">>,
      <<"P","e","r","s","o","n"," ","A",":"," ","h","i",CR>>,
      <<" ",LF>>,
      <<>> }

\* What ai.models.generateContent may come to: a response with a text, a
\* response with no text (response.text undefined), an Error (its message
\* given), or something thrown that is no Error.
GeminiReplies ==
    {[kind |-> "response", hasText |-> TRUE, text |-> t, message |-> <<>>] :
        t \in ReplyTexts}
    \cup
    {[kind |-> "response", hasText |-> FALSE, text |-> <<>>, message |-> <<>>],
     [kind |-> "error", hasText |-> FALSE, text |-> <<>>,
      message |-> <<"[400] ", "API key not valid", ". Please pass a valid API key.">>],
     [kind |-> "error", hasText |-> FALSE, text |-> <<>>,
      message |-> <<"Failed to fetch">>],
     [kind |-> "error", hasText |-> FALSE, text |-> <<>>, message |-> <<>>],
     [kind |-> "nonError", hasText |-> FALSE, text |-> <<>>, message |-> <<>>]}

\* no answer to the request yet
NoReply ==
    [kind |-> "none", hasText |-> FALSE, text |-> <<>>, message |-> <<>>]

\* how generateScript ends: it returns a text or throws an Error
Returned(text) ==
    [returned |-> TRUE, text |-> text, message |-> <<>>]

Thrown(message) ==
    [returned |-> FALSE, text |-> <<>>, message |-> message]

\* generateScript has not ended
NoResult ==
    [returned |-> FALSE, text |-> <<>>, message |-> <<>>]

\* the catch of generateScript: the Error it throws for what it caught
Rethrown(isError, message) ==
    Thrown(IF isError /\ includes(message, <<"API key not valid">>)
           THEN InvalidKeyMessage
           ELSE IF isError THEN message
           ELSE UnknownGenerationMessage)

\* the check without its trim: !scriptText
EmptyReply_NoTrim(reply) ==
    ~reply.hasText \/ reply.text = <<>>

\* the check of the response: !scriptText || scriptText.trim() === ""
EmptyReply(reply) ==
    ~reply.hasText \/ reply.text = <<>> \/ trim(reply.text) = <<>>

\* generateScript once the request is answered by reply
generateScript(reply) ==
    IF reply.kind = "response"
    THEN IF EmptyReply(reply)
         THEN Rethrown(TRUE, EmptyResponseMessage)
         ELSE Returned(reply.text)
    ELSE Rethrown(reply.kind = "error", reply.message)

(***************************************************************************)
(* The App component (App.tsx) and the ScriptOutput component (part_001).  *)
(***************************************************************************)
\* React's null, which no message is
Null ==
    <<"<null>">>

ParseFailureMessage ==
    <<"Failed to parse the script into 'Person A/B:' lines. Displaying raw text. Audio generation may not work as expected.">>
EmptyScriptMessage ==
    <<"AI returned an empty or unparseable script. Please try a different topic or phrasing.">>
RawOutputSpeaker ==
    <<"R","a","w"," ","O","u","t","p","u","t">>
ScriptEditedStatus ==
    <<"Script edited. Please regenerate audio.">>

\* getPlaceholderVideoUrl: the video id after 'v=' of the placeholder,
\* 'iYipwtIa1Po', as a shorts URL
PlaceholderVideoUrl ==
    "https://www.youtube.com/shorts/iYipwtIa1Po"

\* the topics typed into the form
Topics ==
    { <<"g","r","a","v","i","t","y">> }

\* the texts typed into the textarea of a line
EditTexts ==
    { <<>>, <<"o","k">> }

\* the script set without the fallback to the raw text
ScriptFor_NoFallback(text) ==
    parseScriptText(text)

\* the script handleTopicSubmit sets for the text generateScript returned
\* (App.tsx 61-69)
ScriptFor(text) ==
    IF Len(parseScriptText(text)) = 0 /\ Len(trim(text)) > 0
    THEN <<[speaker |-> RawOutputSpeaker, text |-> text]>>
    ELSE IF Len(parseScriptText(text)) = 0
    THEN <<>>
    ELSE parseScriptText(text)

\* the error handleTopicSubmit sets for that text, current when it sets none
ErrorFor(text, current) ==
    IF Len(parseScriptText(text)) = 0 /\ Len(trim(text)) > 0
    THEN ParseFailureMessage
    ELSE IF Len(parseScriptText(text)) = 0
    THEN EmptyScriptMessage
    ELSE current

\* ScriptOutput is rendered (App.tsx 157) and its actions are enabled
\* (disabled, App.tsx 164; the button, part_001 74)
ScriptOutputRendered ==
    ~isLoadingScript /\ Len(scriptLines) > 0

ScriptOutputDisabled ==
    isGeneratingAudio \/ isLoadingScript

TopicEmptyMessage ==
    <<"Topic cannot be empty.">>
EmptyScriptAudioMessage ==
    <<"Cannot generate audio for an empty script.">>

\* handleTopicSubmit, without the check of the topic
handleTopicSubmit_NoBlankCheck(currentTopic) ==
    /\ isLoadingScript' = TRUE
    /\ error' = Null
    /\ scriptLines' = <<>>
    /\ audioUrl' = ""
    /\ audioStatusMessage' = <<>>
    /\ videoUrl' = ""
    /\ isScriptDirty' = FALSE
    /\ currentStatusMessage' = "Generating educational script with Gemini..."
    /\ scriptPc' = "awaiting"
    /\ scriptRequested' = geminiKey
    /\ scriptReply' = NoReply
    /\ scriptResult' = NoResult
    /\ editingIndex' = 0
    /\ editText' = <<>>

\* handleTopicSubmit, were the audio of the script before left in place
handleTopicSubmit_KeepsAudio(currentTopic) ==
    IF trim(currentTopic) = <<>>
    THEN /\ error' = TopicEmptyMessage
         /\ UNCHANGED <<scriptLines, audioUrl, audioStatusMessage, videoUrl,
                        isLoadingScript, isScriptDirty, currentStatusMessage,
                        scriptPc, scriptRequested, scriptReply, scriptResult,
                        editingIndex, editText>>
    ELSE /\ isLoadingScript' = TRUE
         /\ error' = Null
         /\ scriptLines' = <<>>
         /\ UNCHANGED <<audioUrl, audioStatusMessage>>
         /\ videoUrl' = ""
         /\ isScriptDirty' = FALSE
         /\ currentStatusMessage' = "Generating educational script with Gemini..."
         /\ scriptPc' = "awaiting"
         /\ scriptRequested' = geminiKey
         /\ scriptReply' = NoReply
         /\ scriptResult' = NoResult
         /\ editingIndex' = 0
         /\ editText' = <<>>

\* handleTopicSubmit(currentTopic), up to its await of generateScript, which
\* posts its request when the key is set; for a blank topic, to its return.
\* ScriptOutput is not rendered while the script loads and loses its state.
handleTopicSubmit(currentTopic) ==
    IF trim(currentTopic) = <<>>
    THEN /\ error' = TopicEmptyMessage
         /\ UNCHANGED <<scriptLines, audioUrl, audioStatusMessage, videoUrl,
                        isLoadingScript, isScriptDirty, currentStatusMessage,
                        scriptPc, scriptRequested, scriptReply, scriptResult,
                        editingIndex, editText>>
    ELSE /\ isLoadingScript' = TRUE
         /\ error' = Null
         /\ scriptLines' = <<>>
         /\ audioUrl' = ""
         /\ audioStatusMessage' = <<>>
         /\ videoUrl' = ""
         /\ isScriptDirty' = FALSE
         /\ currentStatusMessage' = "Generating educational script with Gemini..."
         /\ scriptPc' = "awaiting"
         /\ scriptRequested' = geminiKey
         /\ scriptReply' = NoReply
         /\ scriptResult' = NoResult
         /\ editingIndex' = 0
         /\ editText' = <<>>

\* SubmitTopic, were the form enabled while a script loads
SubmitTopic_WhileLoading(currentTopic) ==
    /\ trim(currentTopic) # <<>>
    /\ editingIndex = 0
    /\ handleTopicSubmit(currentTopic)
    /\ UNCHANGED <<geminiKey, isGeneratingAudio>>

\* The form is submitted with the topic typed. The textarea is disabled while
\* a script loads and the button also while the topic is blank (TopicForm 32,
\* 37); a line being edited is saved, on blur, before the form can be used.
SubmitTopic(currentTopic) ==
    /\ ~isLoadingScript
    /\ trim(currentTopic) # <<>>
    /\ editingIndex = 0
    /\ handleTopicSubmit(currentTopic)
    /\ UNCHANGED <<geminiKey, isGeneratingAudio>>

\* TopicSubmitFails, were there no finally
TopicSubmitFails_NoFinally(message) ==
    /\ error' = IF message # <<>> THEN message ELSE UnknownGenerationMessage
    /\ currentStatusMessage' = ""
    /\ UNCHANGED <<scriptLines, isScriptDirty, videoUrl, isLoadingScript>>

\* the catch and the finally of handleTopicSubmit, for the Error thrown
TopicSubmitFails(message) ==
    /\ error' = IF message # <<>> THEN message ELSE UnknownGenerationMessage
    /\ currentStatusMessage' = ""
    /\ isLoadingScript' = FALSE
    /\ UNCHANGED <<scriptLines, isScriptDirty, videoUrl>>

\* TopicSubmitSucceeds, were the video set only with a parsed script
TopicSubmitSucceeds_VideoOnlyWhenParsed(text) ==
    /\ scriptLines' = ScriptFor(text)
    /\ error' = ErrorFor(text, error)
    /\ isScriptDirty' =
           IF Len(parseScriptText(text)) > 0 THEN TRUE ELSE isScriptDirty
    /\ currentStatusMessage' =
           IF Len(parseScriptText(text)) > 0
           THEN "Script generated. You can edit it below and then generate audio."
           ELSE "Script generation finished with issues."
    /\ videoUrl' =
           IF Len(parseScriptText(text)) > 0 THEN PlaceholderVideoUrl
           ELSE videoUrl
    /\ isLoadingScript' = FALSE

\* the rest of the try block and the finally of handleTopicSubmit, for the
\* text returned
TopicSubmitSucceeds(text) ==
    /\ scriptLines' = ScriptFor(text)
    /\ error' = ErrorFor(text, error)
    /\ isScriptDirty' =
           IF Len(parseScriptText(text)) > 0 THEN TRUE ELSE isScriptDirty
    /\ currentStatusMessage' =
           IF Len(parseScriptText(text)) > 0
           THEN "Script generated. You can edit it below and then generate audio."
           ELSE "Script generation finished with issues."
    /\ videoUrl' = PlaceholderVideoUrl
    /\ isLoadingScript' = FALSE

\* ScriptSettles, were the request made without a look at the key
ScriptSettles_NoKeyCheck(reply) ==
    /\ scriptPc = "awaiting"
    /\ scriptPc' = "idle"
    /\ scriptReply' = reply
    /\ scriptResult' = generateScript(reply)
    /\ IF scriptResult'.returned
       THEN TopicSubmitSucceeds(scriptResult'.text)
       ELSE TopicSubmitFails(scriptResult'.message)
    /\ UNCHANGED <<geminiKey, audioUrl, audioStatusMessage, isGeneratingAudio,
                   scriptRequested, editingIndex, editText>>

\* generateScript settles and handleTopicSubmit runs to its end: without the
\* key generateScript has thrown before any request; else the request is
\* answered by reply.
ScriptSettles(reply) ==
    /\ scriptPc = "awaiting"
    /\ scriptPc' = "idle"
    /\ scriptReply' = IF scriptRequested THEN reply ELSE NoReply
    /\ scriptResult' = IF scriptRequested THEN generateScript(reply)
                       ELSE Thrown(GeminiKeyMissingMessage)
    /\ IF scriptResult'.returned
       THEN TopicSubmitSucceeds(scriptResult'.text)
       ELSE TopicSubmitFails(scriptResult'.message)
    /\ UNCHANGED <<geminiKey, audioUrl, audioStatusMessage, isGeneratingAudio,
                   scriptRequested, editingIndex, editText>>

\* handleUpdateScriptLine, were a line set to the text it has left alone
handleUpdateScriptLine_OnlyWhenChanged(index, newText, newSpeaker) ==
    IF index \in 1..Len(scriptLines) /\ scriptLines[index].text = newText
    THEN UNCHANGED <<scriptLines, isScriptDirty, audioUrl, audioStatusMessage>>
    ELSE /\ scriptLines' =
                IF index \in 1..Len(scriptLines)
                THEN [scriptLines EXCEPT ![index] =
                         [speaker |-> IF newSpeaker # <<>> THEN newSpeaker
                                      ELSE scriptLines[index].speaker,
                          text    |-> newText]]
                ELSE scriptLines
         /\ isScriptDirty' = TRUE
         /\ audioUrl' = ""
         /\ audioStatusMessage' = ScriptEditedStatus

\* handleUpdateScriptLine, were the speaker set to newSpeaker, given or not
handleUpdateScriptLine_DropsSpeaker(index, newText, newSpeaker) ==
    /\ scriptLines' =
           IF index \in 1..Len(scriptLines)
           THEN [scriptLines EXCEPT ![index] =
                    [speaker |-> newSpeaker, text |-> newText]]
           ELSE scriptLines
    /\ isScriptDirty' = TRUE
    /\ audioUrl' = ""
    /\ audioStatusMessage' = ScriptEditedStatus

\* handleUpdateScriptLine(index, newText, newSpeaker): lines are numbered
\* from 1; no newSpeaker is <<>>
handleUpdateScriptLine(index, newText, newSpeaker) ==
    /\ scriptLines' =
           IF index \in 1..Len(scriptLines)
           THEN [scriptLines EXCEPT ![index] =
                    [speaker |-> IF newSpeaker # <<>> THEN newSpeaker
                                 ELSE scriptLines[index].speaker,
                     text    |-> newText]]
           ELSE scriptLines
    /\ isScriptDirty' = TRUE
    /\ audioUrl' = ""
    /\ audioStatusMessage' = ScriptEditedStatus

\* handleStartEdit(index, currentText), from a click on a line that is not
\* being edited; the line edited before it, if any, was saved on blur
StartEdit(index) ==
    /\ ScriptOutputRendered
    /\ index \in 1..Len(scriptLines)
    /\ editingIndex = 0
    /\ ~ScriptOutputDisabled
    /\ editingIndex' = index
    /\ editText' = scriptLines[index].text
    /\ UNCHANGED <<geminiKey, scriptLines, audioUrl, audioStatusMessage,
                   videoUrl, isLoadingScript, isGeneratingAudio, isScriptDirty,
                   currentStatusMessage, error, scriptPc, scriptRequested,
                   scriptReply, scriptResult>>

\* handleTextareaChange: the text of the textarea is typed over
ChangeEditText(text) ==
    /\ editingIndex # 0
    /\ editText' = text
    /\ UNCHANGED <<geminiKey, scriptLines, audioUrl, audioStatusMessage,
                   videoUrl, isLoadingScript, isGeneratingAudio, isScriptDirty,
                   currentStatusMessage, error, scriptPc, scriptRequested,
                   scriptReply, scriptResult, editingIndex>>

\* handleSaveEdit, on blur or Enter
SaveEdit ==
    /\ editingIndex # 0
    /\ handleUpdateScriptLine(editingIndex, editText, <<>>)
    /\ editingIndex' = 0
    /\ editText' = <<>>
    /\ UNCHANGED <<geminiKey, videoUrl, isLoadingScript, isGeneratingAudio,
                   currentStatusMessage, error, scriptPc, scriptRequested,
                   scriptReply, scriptResult>>

\* Escape in the textarea
CancelEdit ==
    /\ editingIndex # 0
    /\ editingIndex' = 0
    /\ editText' = <<>>
    /\ UNCHANGED <<geminiKey, scriptLines, audioUrl, audioStatusMessage,
                   videoUrl, isLoadingScript, isGeneratingAudio, isScriptDirty,
                   currentStatusMessage, error, scriptPc, scriptRequested,
                   scriptReply, scriptResult>>

\* handleFinalizeAndGenerateAudio, without the check of the script
handleFinalizeAndGenerateAudio_NoEmptyCheck ==
    /\ isGeneratingAudio' = TRUE
    /\ error' = Null
    /\ audioUrl' = ""
    /\ audioStatusMessage' = <<>>
    /\ currentStatusMessage' =
           "Sending script to ElevenLabs for audio generation..."
    /\ CallSynth(scriptLines)

\* handleFinalizeAndGenerateAudio, up to its await of
\* generateAudioWithElevenLabs(scriptLines); for an empty script, to its return
handleFinalizeAndGenerateAudio ==
    IF Len(scriptLines) = 0
    THEN /\ error' = EmptyScriptAudioMessage
         /\ UNCHANGED <<isGeneratingAudio, audioUrl, audioStatusMessage,
                        currentStatusMessage, synVars>>
    ELSE /\ isGeneratingAudio' = TRUE
         /\ error' = Null
         /\ audioUrl' = ""
         /\ audioStatusMessage' = <<>>
         /\ currentStatusMessage' =
                "Sending script to ElevenLabs for audio generation..."
         /\ CallSynth(scriptLines)

\* ClickGenerateAudio, were the button rendered and enabled while a script
\* loads
ClickGenerateAudio_WhileLoading ==
    /\ ~isGeneratingAudio
    /\ editingIndex = 0
    /\ handleFinalizeAndGenerateAudio
    /\ UNCHANGED <<geminiKey, scriptLines, videoUrl, isLoadingScript,
                   isScriptDirty, scriptPc, scriptRequested, scriptReply,
                   scriptResult, editingIndex, editText>>

\* The Generate Audio button is clicked: ScriptOutput is rendered, the button
\* is enabled (part_001 74), and a line being edited was saved on blur.
ClickGenerateAudio ==
    /\ ScriptOutputRendered
    /\ ~isGeneratingAudio
    /\ ~ScriptOutputDisabled
    /\ editingIndex = 0
    /\ handleFinalizeAndGenerateAudio
    /\ UNCHANGED <<geminiKey, scriptLines, videoUrl, isLoadingScript,
                   isScriptDirty, scriptPc, scriptRequested, scriptReply, scriptResult,
                   editingIndex, editText>>

UnknownAudioErrorMessage ==
    <<"An unknown error occurred during audio generation.">>

\* generateAudioWithElevenLabs has settled and handleFinalizeAndGenerateAudio
\* runs to its end: the rest of its try block when the call has returned, its
\* catch when the call has thrown, and its finally
AudioCompletes ==
    /\ synPc \in {"returned", "thrown"}
    /\ IF synPc = "returned"
       THEN /\ audioUrl' = synResult.url
            /\ audioStatusMessage' = synResult.statusMessage
            /\ isScriptDirty' = FALSE
            /\ currentStatusMessage' =
                   IF synResult.url # "" THEN "Audio generation complete!"
                   ELSE "Audio generation finished with issues."
            /\ UNCHANGED error
       ELSE /\ error' = IF synResult.statusMessage # <<>>
                        THEN synResult.statusMessage
                        ELSE UnknownAudioErrorMessage
            /\ audioUrl' = ""
            /\ audioStatusMessage' = <<"Audio generation failed: ">> \o error'
            /\ currentStatusMessage' = "Audio generation failed."
            /\ UNCHANGED isScriptDirty
    /\ isGeneratingAudio' = FALSE
    /\ synPc' = "idle"
    /\ synLines' = <<>>
    /\ synI' = 0
    /\ audioSegments' = <<>>
    /\ synResult' = NoDetails
    /\ finalAudioBuffer' = <<>>
    /\ requests' = <<>>
    /\ responses' = <<>>
    /\ UNCHANGED <<elevenKey, geminiKey, scriptLines, videoUrl, isLoadingScript,
                   scriptPc, scriptRequested, scriptReply, scriptResult,
                   editingIndex, editText>>

(***************************************************************************)
(* parseScriptText on its own: every raw text of up to MaxRawLines lines   *)
(* drawn from SampleLines.                                                 *)
(***************************************************************************)
\* Lines that match the speaker pattern, lines that nearly do, blank lines.
SampleLines ==
    { <<"P","e","r","s","o","n"," ","A",":"," ","h","i">>,
      <<"p","e","r","s","o","n"," ","b",":","y","o"," ">>,
      <<"P","E","R","S","O","N"," ","1","2",":"," "," ","a",":","b">>,
      <<"P","e","r","s","o","n"," ","A",":">>,
      <<"P","e","r","s","o","n"," ","B",":",CR>>,
      <<"P","e","r","s","o","n"," ","A",":"," ","h","i",CR>>,
      <<"h","i">>,
      <<" ","P","e","r","s","o","n"," ","A",":"," ","h","i">>,
      <<"P","e","r","s","o","n"," ",":"," ","h","i">>,
      <<"P","e","r","s","o","n"," ","A"," ",":","h","i">>,
      <<>>,
      <<" ",TAB>> }

\* Array.prototype.join('\n')
RECURSIVE joinLF(_)
joinLF(lines) ==
    IF lines = <<>> THEN <<>>
    ELSE IF Len(lines) = 1 THEN Head(lines)
    ELSE Head(lines) \o <<LF>> \o joinLF(Tail(lines))

RawTexts ==
    {joinLF(ls) : ls \in UNION {[1..n -> SampleLines] : n \in 1..MaxRawLines}}

\* no call of generateAudioWithElevenLabs is under way
SynthIdle ==
    /\ synPc = "idle"
    /\ synLines = <<>>
    /\ synI = 0
    /\ audioSegments = <<>>
    /\ synResult = NoDetails
    /\ finalAudioBuffer = <<>>
    /\ requests = <<>>
    /\ responses = <<>>

\* a handler invoked with an index, a text and a speaker (0 and <<>> when it
\* takes or is given none)
CallWithSpeaker(handler, index, text, speaker) ==
    [handler |-> handler, index |-> index, text |-> text, speaker |-> speaker]

Call(handler, index, text) ==
    CallWithSpeaker(handler, index, text, <<>>)

NoCall ==
    Call("none", 0, <<>>)

\* the App as it is mounted
AppMounted ==
    /\ scriptLines = <<>>
    /\ audioUrl = ""
    /\ audioStatusMessage = <<>>
    /\ videoUrl = ""
    /\ isLoadingScript = FALSE
    /\ isGeneratingAudio = FALSE
    /\ isScriptDirty = FALSE
    /\ currentStatusMessage = ""
    /\ error = Null
    /\ scriptPc = "idle"
    /\ scriptRequested = FALSE
    /\ scriptReply = NoReply
    /\ scriptResult = NoResult
    /\ editingIndex = 0
    /\ editText = <<>>
    /\ called = NoCall

InitParse ==
    /\ rawInput \in RawTexts
    /\ parseOut = <<>>
    /\ parsePc = "raw"
    /\ elevenKey = TRUE
    /\ geminiKey = TRUE
    /\ SynthIdle
    /\ AppMounted

ApplyParse ==
    /\ parsePc = "raw"
    /\ parseOut' = parseScriptText(rawInput)
    /\ parsePc' = "parsed"
    /\ UNCHANGED <<rawInput, synVars, appVars, called>>

NextParse ==
    ApplyParse

SpecParse ==
    InitParse /\ [][NextParse]_vars

(***************************************************************************)
(* generateAudioWithElevenLabs on its own: one call, with or without the   *)
(* ElevenLabs key, for every script of up to MaxScriptLen lines.           *)
(***************************************************************************)
SynthSpeakers ==
    { <<"P","e","r","s","o","n"," ","A">>, <<"P","e","r","s","o","n"," ","B">> }

SynthTexts ==
    { <<>>, <<" ">>, <<"h","i">>, <<"y","o">> }

SynthScripts ==
    UNION {[1..n -> [speaker : SynthSpeakers, text : SynthTexts]] :
              n \in 0..MaxScriptLen}

\* parseScriptText is not under test
ParseUnused ==
    /\ rawInput = <<>>
    /\ parseOut = <<>>
    /\ parsePc = "unused"

InitSynth ==
    /\ ParseUnused
    /\ elevenKey \in BOOLEAN
    /\ geminiKey = TRUE
    /\ SynthIdle
    /\ AppMounted

SynthCalled ==
    /\ synPc = "idle"
    /\ \E lines \in SynthScripts : CallSynth(lines)
    /\ UNCHANGED <<parseVars, appVars, called>>

SynthSegmentResponds ==
    /\ synPc = "fetching"
    /\ \E outcome \in SegmentOutcomes : SegmentResponds(outcome)
    /\ UNCHANGED <<parseVars, appVars, called>>

SynthDelayElapsed ==
    /\ DelayElapsed
    /\ UNCHANGED <<parseVars, appVars, called>>

NextSynth ==
    \/ SynthCalled
    \/ SynthSegmentResponds
    \/ SynthDelayElapsed

SpecSynth ==
    InitSynth /\ [][NextSynth]_vars

(***************************************************************************)
(* The voice of a line: one call of generateAudioWithElevenLabs, with the  *)
(* key, for a script of one line whose speaker label is any of VoiceLabels.*)
(***************************************************************************)
VoiceLabelPrefixes ==
    { <<>>, <<"x">> }

VoiceLabelCores ==
    { <<"P","e","r","s","o","n"," ","A">>,
      <<"p","e","r","s","o","n"," ","a">>,
      <<"P","E","R","S","O","N"," ","A">>,
      <<"P","e","r","s","o","n"," ","B">>,
      <<"P","e","r","s","o","n"," ","A","l">>,
      <<"R","a","w"," ","O","u","t","p","u","t">>,
      <<"H","o","s","t"," ","A",":">>,
      <<"b"," ","a",":">>,
      <<"a",":">>,
      <<"P","e","r","s","o","n">> }

VoiceLabelSuffixes ==
    { <<>>, <<":">>, <<" ">> }

VoiceLabels ==
    {p \o c \o x : p \in VoiceLabelPrefixes, c \in VoiceLabelCores,
                   x \in VoiceLabelSuffixes}

InitVoice ==
    /\ ParseUnused
    /\ elevenKey = TRUE
    /\ geminiKey = TRUE
    /\ SynthIdle
    /\ AppMounted

VoiceCalled ==
    /\ synPc = "idle"
    /\ \E speaker \in VoiceLabels :
           CallSynth(<<[speaker |-> speaker, text |-> <<"h","i">>]>>)
    /\ UNCHANGED <<parseVars, appVars, called>>

NextVoice ==
    \/ VoiceCalled
    \/ SynthSegmentResponds

SpecVoice ==
    InitVoice /\ [][NextVoice]_vars

(***************************************************************************)
(* The application: the App is mounted with either key set or not, and the *)
(* user and the two services act in any order the UI allows.               *)
(***************************************************************************)
Init ==
    /\ ParseUnused
    /\ elevenKey \in BOOLEAN
    /\ geminiKey \in BOOLEAN
    /\ SynthIdle
    /\ AppMounted

\* An await whose promise is settled already resumes before any event or
\* network answer is handled: generateAudioWithElevenLabs has returned, or
\* generateScript has thrown for want of the key.
ContinuationPending ==
    \/ synPc \in {"returned", "thrown"}
    \/ scriptPc = "awaiting" /\ ~scriptRequested

UserSubmitsTopic ==
    /\ ~ContinuationPending
    /\ \E currentTopic \in Topics :
           /\ SubmitTopic(currentTopic)
           /\ called' = Call("handleTopicSubmit", 0, currentTopic)
    /\ UNCHANGED <<parseVars, synVars>>

ScriptRequestSettles ==
    /\ scriptPc = "awaiting"
    /\ scriptRequested => ~ContinuationPending
    /\ \E reply \in GeminiReplies : ScriptSettles(reply)
    /\ called' = NoCall
    /\ UNCHANGED <<parseVars, synVars>>

UserStartsEdit ==
    /\ ~ContinuationPending
    /\ \E index \in 1..Len(scriptLines) :
           /\ StartEdit(index)
           /\ called' = Call("handleStartEdit", index, scriptLines[index].text)
    /\ UNCHANGED <<parseVars, synVars>>

UserTypes ==
    /\ ~ContinuationPending
    /\ \E text \in EditTexts :
           /\ ChangeEditText(text)
           /\ called' = Call("handleTextareaChange", 0, text)
    /\ UNCHANGED <<parseVars, synVars>>

UserSavesEdit ==
    /\ ~ContinuationPending
    /\ SaveEdit
    /\ called' = Call("handleUpdateScriptLine", editingIndex, editText)
    /\ UNCHANGED <<parseVars, synVars>>

UserCancelsEdit ==
    /\ ~ContinuationPending
    /\ CancelEdit
    /\ called' = Call("handleTextareaKeyDown", 0, <<>>)
    /\ UNCHANGED <<parseVars, synVars>>

UserClicksGenerateAudio ==
    /\ ~ContinuationPending
    /\ ClickGenerateAudio
    /\ called' = Call("handleFinalizeAndGenerateAudio", 0, <<>>)
    /\ UNCHANGED parseVars

AudioSegmentResponds ==
    /\ ~ContinuationPending
    /\ synPc = "fetching"
    /\ \E outcome \in SegmentOutcomes : SegmentResponds(outcome)
    /\ called' = NoCall
    /\ UNCHANGED <<parseVars, appVars>>

AudioDelayElapsed ==
    /\ ~ContinuationPending
    /\ DelayElapsed
    /\ called' = NoCall
    /\ UNCHANGED <<parseVars, appVars>>

AudioGenerationCompletes ==
    /\ AudioCompletes
    /\ called' = NoCall
    /\ UNCHANGED parseVars

Next ==
    \/ UserSubmitsTopic
    \/ ScriptRequestSettles
    \/ UserStartsEdit
    \/ UserTypes
    \/ UserSavesEdit
    \/ UserCancelsEdit
    \/ UserClicksGenerateAudio
    \/ AudioSegmentResponds
    \/ AudioDelayElapsed
    \/ AudioGenerationCompletes

Spec ==
    Init /\ [][Next]_vars

(***************************************************************************)
(* The handlers called as functions: the application, and besides what the *)
(* UI lets through, handleTopicSubmit called with a blank topic,           *)
(* handleFinalizeAndGenerateAudio called with no script, and               *)
(* handleUpdateScriptLine called with any index, inside the script or not, *)
(* and with or without a new speaker. A handler runs as one event, so not  *)
(* while a continuation is pending.                                        *)
(***************************************************************************)
BlankTopics ==
    { <<>>, <<" ", TAB, LF>> }

\* the texts handleUpdateScriptLine is called with
NewTexts ==
    { <<"o","k">> }

NewSpeakers ==
    { <<>>, <<"P","e","r","s","o","n"," ","C">> }

DirectTopicSubmit ==
    /\ ~ContinuationPending
    /\ \E currentTopic \in BlankTopics :
           /\ handleTopicSubmit(currentTopic)
           /\ called' = Call("handleTopicSubmit", 0, currentTopic)
    /\ UNCHANGED <<geminiKey, isGeneratingAudio>>
    /\ UNCHANGED <<parseVars, synVars>>

DirectGenerateAudio ==
    /\ ~ContinuationPending
    /\ Len(scriptLines) = 0
    /\ handleFinalizeAndGenerateAudio
    /\ called' = Call("handleFinalizeAndGenerateAudio", 0, <<>>)
    /\ UNCHANGED <<geminiKey, scriptLines, videoUrl, isLoadingScript,
                   isScriptDirty, scriptPc, scriptRequested, scriptReply,
                   scriptResult, editingIndex, editText>>
    /\ UNCHANGED parseVars

DirectUpdateScriptLine ==
    /\ ~ContinuationPending
    /\ \E index \in 0..(Len(scriptLines) + 1), newText \in NewTexts,
          newSpeaker \in NewSpeakers :
           /\ handleUpdateScriptLine(index, newText, newSpeaker)
           /\ called' = CallWithSpeaker("handleUpdateScriptLine", index,
                                        newText, newSpeaker)
    /\ UNCHANGED <<geminiKey, videoUrl, isLoadingScript, isGeneratingAudio,
                   currentStatusMessage, error, scriptPc, scriptRequested,
                   scriptReply, scriptResult, editingIndex, editText>>
    /\ UNCHANGED <<parseVars, synVars>>

NextHandlers ==
    \/ Next
    \/ DirectTopicSubmit
    \/ DirectGenerateAudio
    \/ DirectUpdateScriptLine

\* both keys are set
InitHandlers ==
    /\ ParseUnused
    /\ elevenKey = TRUE
    /\ geminiKey = TRUE
    /\ SynthIdle
    /\ AppMounted

SpecHandlers ==
    InitHandlers /\ [][NextHandlers]_vars

\* The application when every network call is answered or fails, every timer
\* fires and every continuation is run. An answer, once it has arrived, is
\* handled whatever events are handled before it (the task queue), though an
\* event's pending continuation may put it off: strong fairness. The
\* continuation of handleFinalizeAndGenerateAudio stays ready until it runs.
SpecLive ==
    /\ Init
    /\ [][Next]_vars
    /\ SF_vars(ScriptRequestSettles)
    /\ SF_vars(AudioSegmentResponds)
    /\ SF_vars(AudioDelayElapsed)
    /\ WF_vars(AudioGenerationCompletes)

(***************************************************************************)
(* Properties.                                                             *)
(***************************************************************************)
\* What the claims call a well-formed 'Person <label>: utterance' line: the
\* word Person in any case, a space, a label of one or more letters or
\* digits, a colon, and then the utterance, whatever it is.
LabelLength(line) ==
    RunLength(SubSeq(line, Len(PersonPrefix) + 1, Len(line)), Alnum)

WellFormedLine(line) ==
    /\ Len(line) > Len(PersonPrefix) + LabelLength(line)
    /\ toLowerCase(SubSeq(line, 1, Len(PersonPrefix))) = PersonPrefix
    /\ LabelLength(line) >= 1
    /\ line[Len(PersonPrefix) + LabelLength(line) + 1] = ":"

\* The ScriptLine a well-formed line stands for: the speaker as written, the
\* utterance with the white space around it trimmed.
ExpectedLine(line) ==
    [speaker |-> SubSeq(line, 1, Len(PersonPrefix) + LabelLength(line)),
     text    |-> trim(SubSeq(line, Len(PersonPrefix) + LabelLength(line) + 2,
                             Len(line)))]

NotBlank(line) ==
    \E i \in 1..Len(line) : ~IsWhiteSpace(line[i])

\* the non-blank lines of a raw text, in order
NonBlankLinesOf(text) ==
    SelectSeq(split(text), NotBlank)

MatchesPattern(line) ==
    SpeakerRegexMatch(line).matched

\* C1 (as claimed): when every non-blank line of the raw text is a
\* well-formed 'Person <label>: utterance' line, parseScriptText returns one
\* ScriptLine per such line, in the order of the input.
C1_OneLinePerWellFormedLine ==
    (/\ parsePc = "parsed"
     /\ \A i \in 1..Len(NonBlankLinesOf(rawInput)) :
            WellFormedLine(NonBlankLinesOf(rawInput)[i]))
    => /\ Len(parseOut) = Len(NonBlankLinesOf(rawInput))
       /\ \A i \in 1..Len(parseOut) :
              parseOut[i] = ExpectedLine(NonBlankLinesOf(rawInput)[i])

\* C2: parseScriptText drops every non-blank line that does not match the
\* speaker pattern and nothing else: its result is, in order, the ScriptLines
\* of the matching lines; a text with no well-formed line yields no line.
C2_DropsExactlyTheUnmatchedLines ==
    parsePc = "parsed" =>
        LET kept == SelectSeq(NonBlankLinesOf(rawInput), MatchesPattern)
        IN  /\ parseOut = [i \in 1..Len(kept) |-> ExpectedLine(kept[i])]
            /\ (\A i \in 1..Len(NonBlankLinesOf(rawInput)) :
                    ~WellFormedLine(NonBlankLinesOf(rawInput)[i]))
               => parseOut = <<>>

\* C2's case: a text with a non-blank line that does not match, from which
\* some line was parsed all the same.
C2_Witness ==
    /\ parsePc = "parsed"
    /\ parseOut # <<>>
    /\ \E i \in 1..Len(NonBlankLinesOf(rawInput)) :
           ~MatchesPattern(NonBlankLinesOf(rawInput)[i])

\* A line has text when its text holds a character that is no white space.
HasText(line) ==
    \E i \in 1..Len(line.text) : ~IsWhiteSpace(line.text[i])

LinesWithText(lines) ==
    {i \in 1..Len(lines) : HasText(lines[i])}

\* the lines a synthesis request was posted for
RequestedLines ==
    {requests[k].line : k \in 1..Len(requests)}

\* no request of the call has failed
NoRequestFailed ==
    \A k \in 1..Len(responses) : responses[k].kind = "ok"

\* the request log lists the lines 1..N of the script, each with its text
OneRequestPerLineInOrder ==
    /\ Len(requests) = Len(synLines)
    /\ \A i \in 1..Len(requests) :
           /\ requests[i].line = i
           /\ requests[i].text = synLines[i].text

\* the step in which generateScript settles and handleTopicSubmit ends
TopicSubmitEnds ==
    scriptPc = "awaiting" /\ scriptPc' = "idle"

\* the one line that shows the raw text
RawOutputLine(text) ==
    [speaker |-> RawOutputSpeaker, text |-> text]

\* the response carries no text, an empty one or a whitespace-only one
BlankResponse(reply) ==
    /\ reply.kind = "response"
    /\ reply.hasText => \A k \in 1..Len(reply.text) : IsWhiteSpace(reply.text[k])

\* C3: whenever generateScript returns a non-empty text from which
\* parseScriptText gets no line, handleTopicSubmit ends with scriptLines being
\* the one line of speaker 'Raw Output' whose text is the whole text returned,
\* and with error being the parse-failure message.
C3_UnparsedTextShownRaw ==
    [][(/\ TopicSubmitEnds
        /\ scriptResult'.returned
        /\ scriptResult'.text # <<>>
        /\ Len(parseScriptText(scriptResult'.text)) = 0)
       => (/\ scriptLines' = <<RawOutputLine(scriptResult'.text)>>
           /\ error' = ParseFailureMessage)]_vars

C3_Witness ==
    /\ scriptPc = "idle"
    /\ scriptResult.returned
    /\ scriptResult.text # <<>>
    /\ Len(parseScriptText(scriptResult.text)) = 0
    /\ scriptLines = <<RawOutputLine(scriptResult.text)>>
    /\ error = ParseFailureMessage

\* C4: whenever the response to the script request has no text, an empty text
\* or a whitespace-only text, generateScript throws, and handleTopicSubmit
\* ends with error being the message of the generation failure, with
\* scriptLines empty and so with no 'Raw Output' line.
C4_BlankResponseIsGenerationFailure ==
    [][(TopicSubmitEnds /\ BlankResponse(scriptReply'))
       => (/\ ~scriptResult'.returned
           /\ scriptResult'.message = EmptyResponseMessage
           /\ error' = EmptyResponseMessage
           /\ scriptLines' = <<>>)]_vars

C4_Witness ==
    /\ scriptPc = "idle"
    /\ scriptReply.kind = "response"
    /\ scriptReply.hasText
    /\ scriptReply.text # <<>>
    /\ BlankResponse(scriptReply)
    /\ ~scriptResult.returned
    /\ error = EmptyResponseMessage
    /\ scriptLines = <<>>

\* C5 (as claimed): with the key present and no request failing, a script of
\* N lines whose texts are all non-empty gets exactly N requests, the i-th
\* with the i-th line's text, in script order.
C5_NonEmptyLinesAllRequested ==
    (/\ synPc = "returned"
     /\ elevenKey
     /\ NoRequestFailed
     /\ \A i \in 1..Len(synLines) : synLines[i].text # <<>>)
    => OneRequestPerLineInOrder

\* C5 (amended): with the key present and no request failing, a script of N
\* lines whose texts all hold a character that is no white space gets exactly
\* N requests, the i-th with the i-th line's text, in script order.
C5_LinesWithTextAllRequested ==
    (/\ synPc = "returned"
     /\ elevenKey
     /\ NoRequestFailed
     /\ \A i \in 1..Len(synLines) : HasText(synLines[i]))
    => OneRequestPerLineInOrder

\* C5's case: three lines with text, two of them different, all synthesized.
C5_Witness ==
    /\ synPc = "returned"
    /\ elevenKey
    /\ NoRequestFailed
    /\ Len(synLines) = 3
    /\ \A i \in 1..Len(synLines) : HasText(synLines[i])
    /\ synLines[1].text # synLines[2].text
    /\ Len(requests) = 3

\* the segment buffers the requests of the call were answered with, in order
FetchedBuffers ==
    [k \in 1..Len(responses) |-> responses[k].buffer]

\* where segment k starts: the sum of the lengths of the segments before it
RECURSIVE OffsetOf(_, _)
OffsetOf(buffers, k) ==
    IF k <= 1 THEN 0
    ELSE OffsetOf(buffers, k - 1) + Len(buffers[k - 1])

\* C6: on a successful synthesis the final buffer is the segment buffers of
\* the lines, in line order, one after the other: its length is the sum of
\* their lengths and segment k's bytes start at the sum of the lengths of the
\* segments before it.
C6_FinalBufferIsConcatenation ==
    (synPc = "returned" /\ synResult.url = BlobAudioUrl) =>
        /\ \A k \in 1..(Len(requests) - 1) : requests[k].line < requests[k + 1].line
        /\ Len(responses) = Len(requests)
        /\ Len(finalAudioBuffer) = OffsetOf(FetchedBuffers, Len(FetchedBuffers) + 1)
        /\ \A k \in 1..Len(FetchedBuffers) :
               \A j \in 1..Len(FetchedBuffers[k]) :
                   finalAudioBuffer[OffsetOf(FetchedBuffers, k) + j]
                       = FetchedBuffers[k][j]

\* C6's case: a synthesis of three segments, the first and the last with bytes.
C6_Witness ==
    /\ synPc = "returned"
    /\ synResult.url = BlobAudioUrl
    /\ Len(responses) = 3
    /\ Len(responses[1].buffer) = 2
    /\ Len(responses[3].buffer) = 1
    /\ Len(finalAudioBuffer) >= 3

\* the lines requested are the lines with text, and a reported segment count
\* is their number
SkipsExactlyTheBlankLines ==
    /\ RequestedLines = LinesWithText(synLines)
    /\ synResult.url = BlobAudioUrl =>
           synResult.statusMessage =
               <<"Audio successfully generated with ",
                 ToString(Cardinality(LinesWithText(synLines))),
                 " segments using multiple voices.">>

\* C7 (as claimed): a call of generateAudioWithElevenLabs posts a request for
\* exactly the lines whose text is not empty or white space only, and the
\* segment count it reports is the number of these lines.
C7_SkipsExactlyBlankLines ==
    synPc = "returned" => SkipsExactlyTheBlankLines

\* C7 (amended): with the key present and no request failing, a call posts a
\* request for exactly the lines whose text is not empty or white space only,
\* and the segment count it reports is the number of these lines.
C7_SkipsExactlyBlankLinesWhenNothingFails ==
    (synPc = "returned" /\ elevenKey /\ NoRequestFailed)
    => SkipsExactlyTheBlankLines

\* C7's case: a script with an empty line, a white-space line and a line with
\* text, synthesized.
C7_Witness ==
    /\ synPc = "returned"
    /\ synResult.url = BlobAudioUrl
    /\ \E i \in 1..Len(synLines) : synLines[i].text = <<>>
    /\ \E i \in 1..Len(synLines) : synLines[i].text = <<" ">>
    /\ \E i \in 1..Len(synLines) : HasText(synLines[i])

\* an empty URL with a status saying there is no audio
NoAudioResult ==
    /\ synResult.url = ""
    /\ synResult.url # PlaceholderAudioUrl
    /\ synResult.statusMessage =
           IF Len(synLines) = 0 THEN NoScriptLinesStatus ELSE NoAudioStatus

\* C8 (as claimed): for a script of which every line is skipped the call
\* returns an empty URL with a 'no audio' status, never the placeholder.
C8_AllSkippedGivesNoAudio ==
    (/\ synPc = "returned"
     /\ \A i \in 1..Len(synLines) : ~HasText(synLines[i]))
    => NoAudioResult

\* C8 (amended): with the ElevenLabs key present, for a script of which every
\* line is skipped the call returns an empty URL with a 'no audio' status,
\* never the placeholder.
C8_AllSkippedGivesNoAudioWithKey ==
    (/\ synPc = "returned"
     /\ elevenKey
     /\ \A i \in 1..Len(synLines) : ~HasText(synLines[i]))
    => NoAudioResult

\* C8's case: the key present and a script of two or more lines, all skipped.
C8_Witness ==
    /\ synPc = "returned"
    /\ elevenKey
    /\ Len(synLines) >= 2
    /\ \A i \in 1..Len(synLines) : ~HasText(synLines[i])
    /\ \E i \in 1..Len(synLines) : synLines[i].text # <<>>
    /\ synResult.url = ""

\* C9: without the ElevenLabs key no synthesis request is ever posted, and the
\* call returns, as its result, the placeholder URL with the 'simulated (API
\* key missing)' status, whatever the script.
C9_NoKeyGivesPlaceholder ==
    ~elevenKey =>
        /\ requests = <<>>
        /\ synPc \in {"idle", "returned"}
        /\ synPc = "returned" =>
               synResult = [url |-> PlaceholderAudioUrl,
                            statusMessage |-> KeyMissingStatus]

\* C9's case: no key, and a call for a script whose lines have text returned.
C9_Witness ==
    /\ ~elevenKey
    /\ synPc = "returned"
    /\ Len(synLines) >= 2
    /\ \A i \in 1..Len(synLines) : HasText(synLines[i])
    /\ synResult.url = PlaceholderAudioUrl

\* C10: when the k-th request of a call fails, it is the last request posted,
\* the call has returned the placeholder URL with a status that contains the
\* message of the failure, and no buffer fetched before is in the result.
C10_FailureAbortsToPlaceholder ==
    \A k \in 1..Len(responses) :
        responses[k].kind # "ok" =>
            /\ Len(requests) = k
            /\ Len(responses) = k
            /\ synPc = "returned"
            /\ synResult.url = PlaceholderAudioUrl
            /\ includes(synResult.statusMessage,
                        SegmentErrorMessage(responses[k]))
            /\ Len(synResult.statusMessage)
                   = Len(SegmentErrorMessage(responses[k])) + 2
            /\ finalAudioBuffer = <<>>

\* C10's case: of three lines with text the second request fails, after a
\* first segment with bytes was fetched.
C10_Witness ==
    /\ Len(synLines) = 3
    /\ \A i \in 1..Len(synLines) : HasText(synLines[i])
    /\ Len(responses) = 2
    /\ responses[1].kind = "ok"
    /\ responses[1].buffer # <<>>
    /\ responses[2].kind = "http"
    /\ synPc = "returned"

\* marker occurs in label, the letters of label taken in lower case
ContainsIgnoringCase(label, marker) ==
    \E k \in 1..(Len(label) - Len(marker) + 1) :
        \A j \in 1..Len(marker) : LowerChar(label[k + j - 1]) = marker[j]

FirstSpeakerMarker ==
    <<"p","e","r","s","o","n"," ","a">>

SecondMarker ==
    <<" ","a",":">>

\* the speaker label of the line the k-th request was posted for
RequestedSpeaker(k) ==
    synLines[requests[k].line].speaker

\* C11, as stated: every request carries the first voice if and only if the
\* speaker label of its line contains 'person a', whatever the case of its
\* letters, and the second voice otherwise.
C11_FirstVoiceIffPersonA ==
    \A k \in 1..Len(requests) :
        /\ requests[k].voiceId \in {VOICE_ID_PERSON_A, VOICE_ID_PERSON_B}
        /\ requests[k].voiceId = VOICE_ID_PERSON_A
               <=> ContainsIgnoringCase(RequestedSpeaker(k), FirstSpeakerMarker)

\* C11, amended: every request carries the first voice if and only if the
\* speaker label of its line contains 'person a' or ' a:', whatever the case
\* of its letters, and the second voice otherwise.
C11_FirstVoiceIffPersonAOrColonA ==
    \A k \in 1..Len(requests) :
        /\ requests[k].voiceId \in {VOICE_ID_PERSON_A, VOICE_ID_PERSON_B}
        /\ requests[k].voiceId = VOICE_ID_PERSON_A
               <=> \/ ContainsIgnoringCase(RequestedSpeaker(k), FirstSpeakerMarker)
                   \/ ContainsIgnoringCase(RequestedSpeaker(k), SecondMarker)

C11_Witness ==
    /\ Len(requests) = 1
    /\ requests[1].voiceId = VOICE_ID_PERSON_A
    /\ ~ContainsIgnoringCase(RequestedSpeaker(1), FirstSpeakerMarker)
    /\ ContainsIgnoringCase(RequestedSpeaker(1), SecondMarker)

\* the step is a call of the handler named
Calls(handler) ==
    called'.handler = handler

\* C12: every call of handleUpdateScriptLine made while audioUrl is not empty
\* leaves audioUrl empty and isScriptDirty true, whatever the index and the
\* new text are, the text the line already has included.
C12_EditClearsAudioAndMarksDirty ==
    [][(Calls("handleUpdateScriptLine") /\ audioUrl # "")
       => (audioUrl' = "" /\ isScriptDirty')]_vars

\* a line was saved with the text it had, after an audio generation that
\* stored a URL (its status message is still shown)
C12_Witness ==
    /\ called.handler = "handleUpdateScriptLine"
    /\ called.index \in 1..Len(scriptLines)
    /\ called.text = <<"h","i">>
    /\ currentStatusMessage = "Audio generation complete!"
    /\ audioUrl = ""
    /\ isScriptDirty

\* the state handleTopicSubmit starts a script generation from
CleanSlate ==
    /\ scriptLines = <<>>
    /\ audioUrl = ""
    /\ audioStatusMessage = <<>>
    /\ videoUrl = ""
    /\ error = Null
    /\ ~isScriptDirty
    /\ isLoadingScript

\* C13: the step in which handleTopicSubmit is called with a topic that is
\* not blank ends, whatever state it starts in, with scriptLines, audioUrl,
\* audioStatusMessage and videoUrl empty, error null, isScriptDirty false and
\* isLoadingScript true, and with no answer to the script request yet.
C13_TopicSubmitStartsFromCleanSlate ==
    [][(Calls("handleTopicSubmit") /\ trim(called'.text) # <<>>)
       => (CleanSlate' /\ scriptPc' = "awaiting" /\ scriptReply' = NoReply)]_vars

\* a topic was submitted over a script whose audio is being generated
C13_Witness ==
    /\ called.handler = "handleTopicSubmit"
    /\ trim(called.text) # <<>>
    /\ isGeneratingAudio
    /\ Len(synLines) > 0
    /\ CleanSlate

\* C14: while an audio generation is in flight no script generation can be
\* started through the UI: isLoadingScript and isGeneratingAudio are never
\* both true.
C14_BusyFlagsNeverBothTrue ==
    ~(isLoadingScript /\ isGeneratingAudio)

\* C15: in no step taken while isLoadingScript is true is an audio generation
\* or the edit of a line started: neither handleFinalizeAndGenerateAudio nor
\* handleStartEdit is called, isGeneratingAudio does not become true and no
\* line starts being edited; ScriptOutput is not rendered and is disabled.
C15_NoAudioOrEditStartsWhileScriptLoads ==
    [][isLoadingScript
       => (/\ ~ScriptOutputRendered
           /\ ScriptOutputDisabled
           /\ ~Calls("handleFinalizeAndGenerateAudio")
           /\ ~Calls("handleStartEdit")
           /\ isGeneratingAudio' => isGeneratingAudio
           /\ editingIndex' # 0 => editingIndex # 0)]_vars

\* a step was taken by the audio generation while a script loads
C15_Witness ==
    /\ isLoadingScript
    /\ scriptPc = "awaiting"
    /\ isGeneratingAudio
    /\ Len(responses) > 0
    /\ called = NoCall
    /\ editingIndex = 0

\* C16: when every network call is answered or fails, a script generation
\* that has started ends with isLoadingScript false again and an audio
\* generation that has started ends with isGeneratingAudio false again,
\* whether its call succeeded or failed.
C16_BusyFlagsAreReset ==
    /\ isLoadingScript ~> ~isLoadingScript
    /\ isGeneratingAudio ~> ~isGeneratingAudio

\* a script generation and an audio generation have both failed, and
\* neither flag is set
C16_Witness ==
    /\ ~isLoadingScript
    /\ ~isGeneratingAudio
    /\ scriptPc = "idle"
    /\ ~scriptResult.returned
    /\ error = scriptResult.message
    /\ error # <<>>
    /\ audioUrl = PlaceholderAudioUrl
    /\ \E outcome \in SegmentOutcomes :
           /\ outcome.kind # "ok"
           /\ audioStatusMessage = FailedStatus(SegmentErrorMessage(outcome))

\* C17: without the Gemini key no script request is ever posted or answered,
\* generateScript throws the key-missing Error, and handleTopicSubmit ends
\* with that message in error, scriptLines empty and isLoadingScript false.
C17_MissingGeminiKeyFailsTheSubmission ==
    /\ [](~geminiKey => (~scriptRequested /\ scriptReply = NoReply))
    /\ [][(TopicSubmitEnds /\ ~geminiKey)
          => (/\ ~scriptResult'.returned
              /\ scriptResult'.message = GeminiKeyMissingMessage
              /\ error' = GeminiKeyMissingMessage
              /\ scriptLines' = <<>>
              /\ ~isLoadingScript')]_vars

C17_Witness ==
    /\ ~geminiKey
    /\ scriptPc = "idle"
    /\ ~scriptRequested
    /\ scriptResult = Thrown(GeminiKeyMissingMessage)
    /\ error = GeminiKeyMissingMessage
    /\ scriptLines = <<>>
    /\ ~isLoadingScript

\* C18: within a call of generateAudioWithElevenLabs at most one request is
\* unanswered at any time, and it is the last one posted: every request
\* before it was answered, with audio, before it was posted, and the requests
\* are posted in the order of the lines.
C18_OneRequestOutstanding ==
    /\ Len(requests) - Len(responses) \in {0, 1}
    /\ synPc = "fetching" <=> Len(requests) = Len(responses) + 1
    /\ \A k \in 1..(Len(requests) - 1) :
           /\ responses[k].kind = "ok"
           /\ requests[k].line < requests[k + 1].line

\* the third request is out, the two before it are answered
C18_Witness ==
    /\ synPc = "fetching"
    /\ Len(requests) = 3
    /\ Len(responses) = 2

\* The status messages handleTopicSubmit leaves when generateScript has
\* returned. While one of them is shown no audio generation has completed
\* since the script was set: completing one replaces the message.
ScriptSetMessages ==
    { "Script generated. You can edit it below and then generate audio.",
      "Script generation finished with issues." }

\* C19: in every state with a script that is not empty and for which no audio
\* generation has completed since it last changed, isScriptDirty is true;
\* stated for the states in which the message of the script's arrival is
\* still shown, the script edited since or not.
C19_DirtyUntilAudioCompletes ==
    (Len(scriptLines) > 0 /\ currentStatusMessage \in ScriptSetMessages)
        => isScriptDirty

\* the step in which handleFinalizeAndGenerateAudio stores the result of its
\* call of generateAudioWithElevenLabs
AudioResultStored ==
    synPc = "returned" /\ synPc' = "idle"

\* C20: whenever an audio generation completes and stores its result, the
\* lines the audio was made from are the scriptLines of that moment.
C20_StoredAudioMatchesScript ==
    [][AudioResultStored
       => (/\ audioUrl' = synResult.url
           /\ ~isScriptDirty'
           /\ synLines = scriptLines')]_vars

\* C21: a call of handleUpdateScriptLine leaves the script as long as it was
\* and every line but the one at the index as it was; that line gets the new
\* text, and keeps its speaker when no new speaker is given; with an index
\* outside the script no line changes.
C21_EditChangesOnlyTheLineAtIndex ==
    [][Calls("handleUpdateScriptLine")
       => (/\ Len(scriptLines') = Len(scriptLines)
           /\ \A k \in 1..Len(scriptLines) :
                  k # called'.index => scriptLines'[k] = scriptLines[k]
           /\ called'.index \in 1..Len(scriptLines)
                  => /\ scriptLines'[called'.index].text = called'.text
                     /\ called'.speaker = <<>>
                            => scriptLines'[called'.index].speaker
                                   = scriptLines[called'.index].speaker
           /\ called'.index \notin 1..Len(scriptLines)
                  => scriptLines' = scriptLines)]_vars

\* the second of two lines was given a new text and no speaker
C21_Witness ==
    /\ called.handler = "handleUpdateScriptLine"
    /\ called.index = 2
    /\ called.speaker = <<>>
    /\ called.text = <<"o","k">>
    /\ Len(scriptLines) = 2
    /\ scriptLines[1] = [speaker |-> <<"P","e","r","s","o","n"," ","A">>,
                          text |-> <<"h","i">>]
    /\ scriptLines[2] = [speaker |-> <<"P","e","r","s","o","n"," ","B">>,
                          text |-> <<"o","k">>]

\* the step in which handleFinalizeAndGenerateAudio runs to its end
AudioGenerationEnds ==
    synPc \in {"returned", "thrown"} /\ synPc' = "idle"

\* C22: generateAudioWithElevenLabs never throws, whatever its requests come
\* to, and the step that ends handleFinalizeAndGenerateAudio leaves error as
\* it is, stores the URL returned, placeholder or not, sets isScriptDirty to
\* false and isGeneratingAudio to false.
C22_SynthesisNeverThrows ==
    /\ [](synPc # "thrown")
    /\ [][AudioGenerationEnds
          => (/\ error' = error
              /\ ~isScriptDirty'
              /\ audioUrl' = synResult.url
              /\ audioStatusMessage' = synResult.statusMessage
              /\ ~isGeneratingAudio')]_vars

\* the audio generation for a script still shown has ended after a failed
\* request: the placeholder is stored, no error is set, the script is clean
C22_Witness ==
    /\ synPc = "idle"
    /\ called = NoCall
    /\ Len(scriptLines) > 0
    /\ audioUrl = PlaceholderAudioUrl
    /\ audioStatusMessage # KeyMissingStatus
    /\ error = Null
    /\ ~isScriptDirty
    /\ ~isGeneratingAudio

\* a call of generateScript, of generateAudioWithElevenLabs, is in flight
ScriptRequestInFlight ==
    scriptPc = "awaiting"

AudioSynthesisInFlight ==
    synPc # "idle"

\* C23: under the UI gating a script generation starts only when no call of
\* generateScript is in flight and an audio generation only when no call of
\* generateAudioWithElevenLabs is, so at most one of each is in flight; and
\* isLoadingScript, isGeneratingAudio, are true exactly while the call is in
\* flight.
C23_OneCallOfEachInFlight ==
    /\ [](isLoadingScript <=> ScriptRequestInFlight)
    /\ [](isGeneratingAudio <=> AudioSynthesisInFlight)
    /\ [][Calls("handleTopicSubmit")
          => (~ScriptRequestInFlight /\ ScriptRequestInFlight')]_vars
    /\ [][Calls("handleFinalizeAndGenerateAudio")
          => (~AudioSynthesisInFlight /\ AudioSynthesisInFlight')]_vars

\* a script request and a synthesis request are both unanswered
C23_Witness ==
    /\ ScriptRequestInFlight
    /\ scriptRequested
    /\ isLoadingScript
    /\ synPc = "fetching"
    /\ Len(requests) = Len(responses) + 1
    /\ isGeneratingAudio

\* C24: a call of handleTopicSubmit with an empty or whitespace-only topic
\* sets error to its message and changes nothing else: scriptLines, audioUrl,
\* audioStatusMessage, videoUrl, isScriptDirty, both busy flags and the
\* status message stay, no script request is posted and none is in flight
\* that was not, and the synthesis is left as it is.
C24_BlankTopicChangesOnlyError ==
    [][(Calls("handleTopicSubmit") /\ trim(called'.text) = <<>>)
       => (/\ error' = TopicEmptyMessage
           /\ UNCHANGED <<scriptLines, audioUrl, audioStatusMessage, videoUrl,
                          isScriptDirty, isLoadingScript, isGeneratingAudio,
                          currentStatusMessage>>
           /\ UNCHANGED <<scriptPc, scriptRequested, scriptReply, scriptResult>>
           /\ UNCHANGED <<synVars, editingIndex, editText>>)]_vars

\* a blank topic was submitted over a script with its audio and video
C24_Witness ==
    /\ called.handler = "handleTopicSubmit"
    /\ trim(called.text) = <<>>
    /\ called.text # <<>>
    /\ error = TopicEmptyMessage
    /\ Len(scriptLines) > 0
    /\ audioUrl = BlobAudioUrl
    /\ videoUrl = PlaceholderVideoUrl
    /\ ~isLoadingScript

\* C25: a call of handleFinalizeAndGenerateAudio with an empty script sets
\* error to its message and changes nothing else: isGeneratingAudio does not
\* become true, audioUrl, audioStatusMessage, isScriptDirty and scriptLines
\* stay, and no synthesis request is posted.
C25_EmptyScriptChangesOnlyError ==
    [][(Calls("handleFinalizeAndGenerateAudio") /\ Len(scriptLines) = 0)
       => (/\ error' = EmptyScriptAudioMessage
           /\ isGeneratingAudio' = isGeneratingAudio
           /\ UNCHANGED <<audioUrl, audioStatusMessage, isScriptDirty,
                          scriptLines, videoUrl, isLoadingScript,
                          currentStatusMessage>>
           /\ UNCHANGED <<synVars, scriptPc, scriptRequested>>)]_vars

\* audio was asked for with no script, the audio of an earlier script in
\* place
C25_Witness ==
    /\ called.handler = "handleFinalizeAndGenerateAudio"
    /\ Len(scriptLines) = 0
    /\ error = EmptyScriptAudioMessage
    /\ ~isGeneratingAudio
    /\ synPc = "idle"
    /\ requests = <<>>
    /\ audioUrl = BlobAudioUrl

\* the script generation started last has ended with generateScript
\* returning a text
LastScriptGenerationSucceeded ==
    scriptPc = "idle" /\ scriptResult.returned

\* C26: videoUrl is the placeholder video URL exactly when the script
\* generation started last has ended with its call returning, the text parsed
\* or shown raw; it is empty before any generation, while a script request is
\* in flight and after the call has failed.
C26_VideoIffLastScriptGenerationSucceeded ==
    /\ videoUrl \in {"", PlaceholderVideoUrl}
    /\ videoUrl = PlaceholderVideoUrl <=> LastScriptGenerationSucceeded

\* the video is set with the raw text shown
C26_Witness ==
    /\ LastScriptGenerationSucceeded
    /\ Len(scriptLines) = 1
    /\ scriptLines[1].speaker = RawOutputSpeaker
    /\ videoUrl = PlaceholderVideoUrl

====
